---------------------------- MODULE Spec2Model ----------------------------
(***************************************************************************)
(* A model of src/app.js: the sentiment demo's Dataset Store (line 9), the  *)
(* TSV ingestion (loadTSV), the response normalizer (normalizeHfResponse)  *)
(* and the analyze handler (analyzeRandom), with the DOM elements the      *)
(* handlers write (the entries of els) as state.                           *)
(*                                                                         *)
(* Scores are kept in tenths: 5 stands for 0.5, 9 for 0.9.                  *)
(* A text is a sequence of characters, " " being the whitespace character. *)
(***************************************************************************)
EXTENDS Integers, Sequences, FiniteSets, TLC

(***************************************************************************)
(* Bounds of the model.                                                    *)
(***************************************************************************)
\* longest candidate list handed to the normalizer
MaxCands == 2

(***************************************************************************)
(* JSON values, as far as normalizeHfResponse looks into them.             *)
(*   label: [k |-> "str", s |-> the text] or [k |-> "other"] (missing or   *)
(*          not a string)                                                  *)
(*   score: [k |-> "num", n] a number; [k |-> "str", n] a numeric string   *)
(*          that coerces to n in a subtraction; [k |-> "none"] missing or  *)
(*          null (the ?? operator turns both into 0)                       *)
(*   element: t = "null" (JSON null), "obj" (any other non-array value: a  *)
(*          number or a string has neither label nor score), "arr" (an     *)
(*          array, its elements in items)                                  *)
(*   body:  t = "falsy" (null, 0, false, ""), "scalar" (a truthy value     *)
(*          that is no array), "array" (its elements in v)                 *)
(***************************************************************************)
NoLabel == [k |-> "other", s |-> ""]
StrLabel(s) == [k |-> "str", s |-> s]
LabelTexts == {"POSITIVE", "positive", "Negative", "LABEL_1"}
Labels == {StrLabel(s) : s \in LabelTexts} \cup {NoLabel}

NoScore == [k |-> "none", n |-> 0]
NumScore(n) == [k |-> "num", n |-> n]
StrScore(n) == [k |-> "str", n |-> n]
Scores == {NoScore, NumScore(-2), NumScore(5), NumScore(6), StrScore(9)}

JNull == [t |-> "null", label |-> NoLabel, score |-> NoScore]
JObj(l, s) == [t |-> "obj", label |-> l, score |-> s]
Items == {JObj(l, s) : l \in Labels, s \in Scores} \cup {JNull}

SeqsUpTo(S, n) == UNION {[1..k -> S] : k \in 0..n}
ItemLists == SeqsUpTo(Items, MaxCands)

JElem(c) == [t |-> c.t, label |-> c.label, score |-> c.score, items |-> <<>>]
JArrElem(cs) == [t |-> "arr", label |-> NoLabel, score |-> NoScore, items |-> cs]
JFalsy == [t |-> "falsy", v |-> <<>>]
JScalar == [t |-> "scalar", v |-> <<>>]
\* [c1, c2, ...]
JFlat(cs) == [t |-> "array", v |-> [i \in 1..Len(cs) |-> JElem(cs[i])]]
\* [[c1, c2, ...]]
JNested(cs) == [t |-> "array", v |-> <<JArrElem(cs)>>]
JsonBodies == {JFalsy, JScalar} \cup {JFlat(cs) : cs \in ItemLists}
                 \cup {JNested(cs) : cs \in ItemLists}

(***************************************************************************)
(* normalizeHfResponse, src/app.js:92-118.                                 *)
(***************************************************************************)
\* String.prototype.toUpperCase on the label texts of the model
toUpperCase(s) ==
  CASE s = "positive" -> "POSITIVE"
    [] s = "Negative" -> "NEGATIVE"
    [] OTHER -> s

\* Array.isArray
IsArray(x) == x.t \in {"array", "arr"}

\* line 97-102 without the branch of line 99-100 for a flat list
CandidatesNestedOnly(json) ==
  IF IsArray(json) /\ Len(json.v) > 0 /\ IsArray(json.v[1])
    THEN [isArr |-> TRUE, nested |-> TRUE, list |-> json.v[1].items]
  ELSE [isArr |-> FALSE, nested |-> FALSE, list |-> <<>>]

\* line 97-102: json[0] when json is an array whose first element is an
\* array, json itself when it is an array, otherwise null (isArr FALSE)
Candidates(json) ==
  IF IsArray(json) /\ Len(json.v) > 0 /\ IsArray(json.v[1])
    THEN [isArr |-> TRUE, nested |-> TRUE, list |-> json.v[1].items]
  ELSE IF IsArray(json)
    THEN [isArr |-> TRUE, nested |-> FALSE,
          list |-> [i \in 1..Len(json.v) |->
                      [t |-> json.v[i].t, label |-> json.v[i].label,
                       score |-> json.v[i].score]]]
  ELSE [isArr |-> FALSE, nested |-> FALSE, list |-> <<>>]

\* (x.score ?? 0), as the subtraction of the comparator coerces it
ScoreKey(c) == IF c.score.k = "none" THEN 0 ELSE c.score.n

\* line 106, the comparator: (b.score ?? 0) - (a.score ?? 0)
Compare(a, b) == ScoreKey(b) - ScoreKey(a)

\* the comparator reads .score of null: a TypeError. sort calls it on every
\* element as soon as there are two
SortThrows(cs) == Len(cs) >= 2 /\ \E i \in 1..Len(cs) : cs[i].t = "null"

\* one element put into a sorted list, after the elements the comparator
\* does not order behind it (Array.prototype.sort is stable)
RECURSIVE Insert(_, _)
Insert(x, sorted) ==
  IF sorted = <<>> THEN <<x>>
  ELSE IF Compare(Head(sorted), x) <= 0
    THEN <<Head(sorted)>> \o Insert(x, Tail(sorted))
  ELSE <<x>> \o sorted

\* the sort left out: the list as it came
SortKeepsOrder(cs) == cs

\* line 106: candidates.sort(...), descending by score
RECURSIVE SortDesc(_)
SortDesc(cs) ==
  IF cs = <<>> THEN <<>>
  ELSE Insert(cs[Len(cs)], SortDesc(SubSeq(cs, 1, Len(cs) - 1)))

\* line 111: typeof top.score === 'number' ? top.score : 0
ScoreOf(top) == IF top.score.k = "num" THEN top.score.n ELSE 0

\* the threshold 0.5 of lines 114-115, in tenths
Threshold == 5

\* the rule with >= for >
VerdictAtLeast(label, score) ==
  IF label = "POSITIVE" /\ score >= Threshold THEN "positive"
  ELSE IF label = "NEGATIVE" /\ score >= Threshold THEN "negative"
  ELSE "neutral"

\* line 113-115
Verdict(label, score) ==
  IF label = "POSITIVE" /\ score > Threshold THEN "positive"
  ELSE IF label = "NEGATIVE" /\ score > Threshold THEN "negative"
  ELSE "neutral"

\* a neutral result where the source returns null
NeutralForNull ==
  [isNull |-> FALSE, label |-> "", score |-> 0, verdict |-> "neutral"]

null == [isNull |-> TRUE, label |-> "", score |-> 0, verdict |-> ""]
Result(l, s, v) == [isNull |-> FALSE, label |-> l, score |-> s, verdict |-> v]

\* the array json with its candidate list replaced by cs: sort works in place
WithCandidates(json, cand, cs) ==
  IF cand.nested
    THEN [json EXCEPT !.v[1].items = cs]
  ELSE [json EXCEPT !.v = [i \in 1..Len(cs) |-> JElem(cs[i])]]

\* What a call does: throws (the TypeError leaves the function), value (the
\* return value), json (the argument as the call leaves it).
normalizeHfResponse(json) ==
  IF json.t = "falsy" THEN [throws |-> FALSE, value |-> null, json |-> json]
  ELSE LET cand == Candidates(json) IN
    IF ~cand.isArr \/ Len(cand.list) = 0
      THEN [throws |-> FALSE, value |-> null, json |-> json]
    ELSE IF SortThrows(cand.list)
      THEN [throws |-> TRUE, value |-> null, json |-> json]
    ELSE LET sorted == SortDesc(cand.list)
             top == sorted[1]
             after == WithCandidates(json, cand, sorted)
         IN IF top.t = "null" \/ top.label.k # "str"
              THEN [throws |-> FALSE, value |-> null, json |-> after]
            ELSE LET label == toUpperCase(top.label.s)
                     score == ScoreOf(top)
                 IN [throws |-> FALSE,
                     value |-> Result(label, score, Verdict(label, score)),
                     json |-> after]

(***************************************************************************)
(* Texts, and the rows Papa Parse hands to the complete callback.          *)
(***************************************************************************)
\* most rows of a parsed file
MaxRows == 2

Space == " "

\* String.prototype.trim: the whitespace at both ends goes, the rest stays
RECURSIVE TrimStart(_)
TrimStart(s) ==
  IF s # <<>> /\ Head(s) = Space THEN TrimStart(Tail(s)) ELSE s

RECURSIVE TrimEnd(_)
TrimEnd(s) ==
  IF s # <<>> /\ s[Len(s)] = Space THEN TrimEnd(SubSeq(s, 1, Len(s) - 1)) ELSE s

\* trimStart for trim
trimStartOnly(s) == TrimStart(s)

trim(s) == TrimEnd(TrimStart(s))

\* the "text" field of a row: a string, or anything else (missing, a number)
StrField(s) == [k |-> "str", s |-> s]
OtherField == [k |-> "other", s |-> <<>>]

\* a row: an object with its "text" field, or a falsy value
Row(f) == [t |-> "obj", text |-> f]
NullRow == [t |-> "null", text |-> OtherField]

FieldTexts == { <<>>, <<" ", " ">>, <<" ", "a">>, <<"b", " ", "b", " ">> }
Rows == {Row(StrField(s)) : s \in FieldTexts} \cup {Row(OtherField), NullRow}
RowLists == SeqsUpTo(Rows, MaxRows)

\* the files the reloads of the whole application are run on
Files ==
  { <<Row(OtherField), Row(StrField(<<" ", " ">>))>>,
    <<Row(StrField(<<" ", "a">>))>>,
    <<Row(StrField(<<"b", " ", "b", " ">>)), NullRow, Row(StrField(<<" ", "a">>))>> }

\* line 182: r => (r && typeof r.text === 'string') ? r.text.trim() : ''
RowText(r) == IF r.t # "null" /\ r.text.k = "str" THEN trim(r.text.s) ELSE <<>>

\* line 181-183: rows.map(...).filter(t => t.length > 0)
Texts(rows) ==
  SelectSeq([i \in 1..Len(rows) |-> RowText(rows[i])], LAMBDA t : Len(t) > 0)

(***************************************************************************)
(* The DOM helpers, src/app.js:37-72 and 126-155, as the values they write. *)
(***************************************************************************)
\* a message is the sequence of the parts its template literal joins
NoMessage == <<>>

\* setStatus(mode, text), line 37-42
Status(mode, text) == [mode |-> mode, text |-> text]

\* showError(msg), line 48-53
Shown(msg) == [display |-> "block", text |-> msg]

\* clearError(), line 59-63
Cleared == [display |-> "none", text |-> NoMessage]

\* updateCountBadge(), line 69-72: `${n} review${n === 1 ? '' : 's'} loaded`
CountBadge(reviews) ==
  [n |-> Len(reviews),
   text |-> IF Len(reviews) = 1 THEN "review loaded" ELSE "reviews loaded"]

\* renderSentiment(result), line 126-155: icon, label and score text
renderSentiment(result) ==
  IF result.isNull
    THEN [icon |-> "circle-question", label |-> "Neutral (no result)",
          dash |-> TRUE, score |-> 0]
  ELSE [icon |-> IF result.verdict = "positive" THEN "thumbs-up"
                 ELSE IF result.verdict = "negative" THEN "thumbs-down"
                 ELSE "circle-question",
        label |-> IF result.verdict = "positive" THEN "Positive"
                  ELSE IF result.verdict = "negative" THEN "Negative"
                  ELSE "Neutral",
        dash |-> FALSE, score |-> result.score]

\* what index.html shows before any handler wrote the element
Markup == "(markup)"

(***************************************************************************)
(* State.                                                                  *)
(***************************************************************************)
VARIABLES
  State,         \* STATE of line 9: [reviews, loaded]
  loadStatus,    \* els.loadStatus: class and label text
  errorBox,      \* els.errorBox: display and text
  countBadge,    \* els.countBadge
  reloadBusy,    \* aria-busy of els.reloadBtn
  analyzeBusy,   \* aria-busy of els.analyzeBtn
  reviewDisplay, \* els.reviewDisplay.textContent
  sentiment,     \* els.sentimentIcon, sentimentLabel, sentimentScore
  wired,         \* the click and keydown listeners of line 298-308 are set
  booted,        \* DOMContentLoaded has fired
  loads,         \* the loadTSV calls whose Papa.parse has not called back
  analyses,      \* the analyzeRandom calls suspended in an await
  nLoads,        \* loadTSV calls made so far
  nAnalyses,     \* analyzeRandom calls made so far
  wroteSince,    \* the pending loadTSV calls since whose reset another call
                 \* stored surviving rows
  ev,            \* the handler step taken last: what it was given (rows,
                 \* body), whether the call it ends rendered a result or
                 \* showed an error, whether the loadTSV call it ends was
                 \* in wroteSince
  owner,         \* whose output the page shows: the call started last, whether
                 \* another call was suspended when it started, the call that
                 \* showed the error on display, the review whose result the
                 \* sentiment block shows
  json,          \* the value a caller holds and hands to normalizeHfResponse
  returned,      \* what the last call of normalizeHfResponse on json did
  calls          \* the calls made on json: "none", "once", "again"

dvars == <<State, loadStatus, countBadge, reloadBusy, wired, booted, loads,
           nLoads, wroteSince>>
avars == <<analyzeBusy, reviewDisplay, sentiment, analyses, nAnalyses>>
nvars == <<json, returned, calls>>
vars == <<dvars, errorBox, avars, ev, owner, nvars>>

\* clicks on the two buttons the model follows
MaxClicks == 2

\* the clicks so far: the first loadTSV call is the bootstrap's
Clicks == (IF nLoads > 0 THEN nLoads - 1 ELSE 0) + nAnalyses

EmptyStore == [reviews |-> <<>>, loaded |-> FALSE]

NoErrBody == [parses |-> FALSE, error |-> [k |-> "other", s |-> ""]]

Event(op) ==
  [op |-> op, rendered |-> FALSE, errored |-> FALSE, wrote |-> FALSE,
   rows |-> <<>>, body |-> JFalsy, status |-> 0, error |-> NoErrBody]

\* the calls of the two handlers, by name and number
NoCall == [fn |-> "none", id |-> 0]
LoadCall(id) == [fn |-> "loadTSV", id |-> id]
AnalyzeCall(id) == [fn |-> "analyzeRandom", id |-> id]

\* no review: the reviews of STATE are never empty texts
NoReview == <<>>

NoOwner ==
  [started |-> NoCall, overlap |-> FALSE, errorBy |-> NoCall,
   resultFor |-> NoReview]

\* a call starts: clearError of line 167 and 222
Started(call) ==
  [owner EXCEPT !.started = call,
                !.overlap = (loads # {} \/ analyses # {}),
                !.errorBy = NoCall]

\* showError(msg) by a call
ShownBy(o, call) == [o EXCEPT !.errorBy = call]

NotCalled == [throws |-> FALSE, value |-> null, arg |-> JFalsy]

\* the script has run: STATE is set (line 9), no handler has
SysInit ==
  /\ State = EmptyStore
  /\ loadStatus = Status("", Markup)
  /\ errorBox = [display |-> Markup, text |-> NoMessage]
  /\ countBadge = [n |-> 0, text |-> Markup]
  /\ reloadBusy = Markup
  /\ analyzeBusy = Markup
  /\ reviewDisplay = <<Markup>>
  /\ sentiment = [icon |-> Markup, label |-> Markup, dash |-> TRUE, score |-> 0]
  /\ wired = FALSE
  /\ booted = FALSE
  /\ loads = {}
  /\ analyses = {}
  /\ nLoads = 0
  /\ nAnalyses = 0
  /\ wroteSince = {}
  /\ ev = Event("script")
  /\ owner = NoOwner

NoCaller ==
  /\ json = JFalsy
  /\ returned = NotCalled
  /\ calls = "none"

(***************************************************************************)
(* loadTSV, src/app.js:165-210, and its two callers, line 293-302.         *)
(***************************************************************************)
\* loadTSV without the reset of line 168-170
loadTSVKeepsStore(boot) ==
  /\ loadStatus' = Status("", "Loading TSV...")
  /\ errorBox' = Cleared
  /\ nLoads' = nLoads + 1
  /\ loads' = loads \cup {[id |-> nLoads + 1, boot |-> boot]}
  /\ UNCHANGED <<State, countBadge, wroteSince>>

\* loadTSV without updateCountBadge() of line 170
loadTSVKeepsBadge(boot) ==
  /\ loadStatus' = Status("", "Loading TSV...")
  /\ errorBox' = Cleared
  /\ State' = EmptyStore
  /\ countBadge' = countBadge
  /\ nLoads' = nLoads + 1
  /\ loads' = loads \cup {[id |-> nLoads + 1, boot |-> boot]}
  /\ wroteSince' = wroteSince

\* loadTSV without setStatus of line 166
loadTSVKeepsStatus(boot) ==
  /\ loadStatus' = loadStatus
  /\ errorBox' = Cleared
  /\ State' = EmptyStore
  /\ countBadge' = CountBadge(<<>>)
  /\ nLoads' = nLoads + 1
  /\ loads' = loads \cup {[id |-> nLoads + 1, boot |-> boot]}
  /\ wroteSince' = wroteSince

\* loadTSV without clearError() of line 167
loadTSVKeepsError(boot) ==
  /\ loadStatus' = Status("", "Loading TSV...")
  /\ errorBox' = errorBox
  /\ State' = EmptyStore
  /\ countBadge' = CountBadge(<<>>)
  /\ nLoads' = nLoads + 1
  /\ loads' = loads \cup {[id |-> nLoads + 1, boot |-> boot]}
  /\ wroteSince' = wroteSince

\* line 166-172: the part of loadTSV that runs before Papa.parse suspends it
loadTSV(boot) ==
  /\ loadStatus' = Status("", "Loading TSV...")
  /\ errorBox' = Cleared
  /\ State' = EmptyStore
  /\ countBadge' = CountBadge(<<>>)
  /\ nLoads' = nLoads + 1
  /\ loads' = loads \cup {[id |-> nLoads + 1, boot |-> boot]}
  /\ wroteSince' = wroteSince

\* line 294-295 and 299-300: aria-busy, then the call
DOMContentLoaded ==
  /\ ~booted
  /\ booted' = TRUE
  /\ reloadBusy' = "true"
  /\ loadTSV(TRUE)
  /\ ev' = Event("DOMContentLoaded")
  /\ owner' = Started(LoadCall(nLoads + 1))
  /\ UNCHANGED <<wired, avars, nvars>>

ReloadClick ==
  /\ wired
  /\ Clicks < MaxClicks
  /\ reloadBusy' = "true"
  /\ loadTSV(FALSE)
  /\ ev' = Event("reload")
  /\ owner' = Started(LoadCall(nLoads + 1))
  /\ UNCHANGED <<wired, booted, avars, nvars>>

\* line 296 and 301, after the await: aria-busy; line 298-308 for the first call
Resumed(l) ==
  /\ reloadBusy' = "false"
  /\ wired' = (wired \/ l.boot)
  /\ loads' = loads \ {l}
  /\ UNCHANGED <<booted, nLoads>>

\* the store written only when a text survived
StoreAfterUnlessEmpty(store, texts) ==
  IF Len(texts) > 0 THEN [reviews |-> texts, loaded |-> TRUE] ELSE store

\* loaded set whatever survived
StoreAfterAlwaysLoaded(store, texts) ==
  [store EXCEPT !.reviews = texts, !.loaded = TRUE]

\* the survivors appended to the reviews in the store
StoreAfterMerged(store, texts) ==
  [store EXCEPT !.reviews = store.reviews \o texts,
                !.loaded = Len(store.reviews \o texts) > 0]

\* line 185-186
StoreAfter(store, texts) ==
  [store EXCEPT !.reviews = texts, !.loaded = Len(texts) > 0]

\* line 178-196: the complete callback on results.data = rows
LoadComplete(l, rows) ==
  /\ l \in loads
  /\ LET texts == Texts(rows) IN
       /\ State' = StoreAfter(State, texts)
       /\ countBadge' = CountBadge(texts)
       /\ IF Len(texts) > 0
            THEN /\ loadStatus' = Status("ready", "TSV loaded")
                 /\ errorBox' = errorBox
                 /\ wroteSince' = loads \ {l}
            ELSE /\ loadStatus' = Status("error", "No reviews found in TSV")
                 /\ errorBox' = Shown(<<"No valid \"text\" column values found in reviews_test.tsv.">>)
                 /\ wroteSince' = wroteSince \ {l}
  /\ Resumed(l)
  /\ ev' = [Event("complete") EXCEPT !.rows = rows, !.wrote = (l \in wroteSince),
                                     !.errored = (Len(Texts(rows)) = 0)]
  /\ owner' = IF Len(Texts(rows)) = 0 THEN ShownBy(owner, LoadCall(l.id))
                                       ELSE owner
  /\ UNCHANGED <<avars, nvars>>

\* line 197-201: results.data is no array, rows.map throws before line 185
LoadCompleteThrows(l) ==
  /\ l \in loads
  /\ loadStatus' = Status("error", "Parse error")
  /\ errorBox' = Shown(<<"Failed to parse TSV: ", "rows.map is not a function">>)
  /\ wroteSince' = wroteSince \ {l}
  /\ Resumed(l)
  /\ ev' = [Event("complete.catch") EXCEPT !.wrote = (l \in wroteSince),
                                           !.errored = TRUE]
  /\ owner' = ShownBy(owner, LoadCall(l.id))
  /\ UNCHANGED <<State, countBadge, avars, nvars>>

\* line 203-207: the error callback
LoadError(l) ==
  /\ l \in loads
  /\ loadStatus' = Status("error", "Load failed")
  /\ errorBox' = Shown(<<"Failed to load TSV: ", "Not Found">>)
  /\ wroteSince' = wroteSince \ {l}
  /\ Resumed(l)
  /\ ev' = [Event("error") EXCEPT !.wrote = (l \in wroteSince),
                                  !.errored = TRUE]
  /\ owner' = ShownBy(owner, LoadCall(l.id))
  /\ UNCHANGED <<State, countBadge, avars, nvars>>

(***************************************************************************)
(* analyzeRandom, src/app.js:221-285.                                      *)
(***************************************************************************)
\* what els.token.value holds when the handler reads it
Tokens == { <<>>, <<" ", "k">> }

\* the response statuses the classifier answers with
Statuses == {200, 401, 429, 503, 500}

\* Response.ok
Ok(status) == status \in 200..299

\* the body of a non-success response: unparsable, or JSON with its "error"
\* field (a string, or missing or not a string)
ErrBodies ==
  { [parses |-> FALSE, error |-> [k |-> "other", s |-> ""]],
    [parses |-> TRUE, error |-> [k |-> "other", s |-> ""]],
    [parses |-> TRUE, error |-> [k |-> "str", s |-> "invalid token"]] }

\* the parsable bodies of a success response the application is run on
Pos6 == JObj(StrLabel("POSITIVE"), NumScore(6))
Neg6 == JObj(StrLabel("Negative"), NumScore(6))
Pos5 == JObj(StrLabel("positive"), NumScore(5))
Bare == JObj(NoLabel, NoScore)
Bodies ==
  { JFalsy, JScalar, JFlat(<<>>), JFlat(<<Bare>>), JNested(<<JNull>>),
    JNested(<<JNull, Pos6>>), JNested(<<Pos6>>), JNested(<<Pos5, Neg6>>) }

Undefined == <<"(undefined)">>

\* chooseRandom with an index that runs from 1 to arr.length
chooseRandomOffEnd(arr) ==
  {arr[i] : i \in 2..Len(arr)} \cup {Undefined}

\* chooseRandom(arr), line 78-80: the values it can return
chooseRandom(arr) ==
  IF Len(arr) = 0 THEN {Undefined} ELSE {arr[i] : i \in 1..Len(arr)}

\* the test of line 223 inverted
PreconditionInverted(st) == st.loaded /\ Len(st.reviews) > 0

\* line 223
PreconditionFails(st) == ~st.loaded \/ Len(st.reviews) = 0

\* line 231: text || '(Empty review)'
Displayed(text) ==
  IF text = Undefined \/ text = <<>> THEN <<"(Empty review)">> ELSE text

NotLoadedMessage ==
  <<"Data not loaded. Click \"Reload TSV\" and ensure reviews_test.tsv is present with a \"text\" column.">>

\* line 259 without its typeof test
DetailUnchecked(body) ==
  IF body.parses THEN <<" - ", body.error.s>> ELSE <<>>

\* line 259: the " - " stands for the dash of the source
Detail(body) ==
  IF body.parses /\ body.error.k = "str" THEN <<" - ", body.error.s>> ELSE <<>>

\* line 261-269
StatusMessage(status, detail) ==
  IF status = 401
    THEN <<"Unauthorized (401). Invalid or missing token">> \o detail
         \o <<". You can try without a token or provide a valid one.">>
  ELSE IF status = 429
    THEN <<"Rate limited (429). Please wait and try again">> \o detail
         \o <<". Supplying your token may help.">>
  ELSE IF status = 503
    THEN <<"Model loading (503). The model is warming up. Please retry in a moment">>
         \o detail \o <<".">>
  ELSE <<"API error (", ToString(status), ").">> \o detail

\* an analyzeRandom call leaves its await for good
Ended(a) == analyses' = analyses \ {a}

\* line 221-247: from the click to the await of fetch
AnalyzeClick ==
  /\ wired
  /\ Clicks < MaxClicks
  /\ nAnalyses' = nAnalyses + 1
  /\ IF PreconditionFails(State)
       THEN /\ errorBox' = Shown(NotLoadedMessage)
            /\ ev' = [Event("analyze.return") EXCEPT !.errored = TRUE]
            /\ owner' = ShownBy(Started(AnalyzeCall(nAnalyses + 1)),
                                AnalyzeCall(nAnalyses + 1))
            /\ UNCHANGED <<analyzeBusy, reviewDisplay, sentiment, analyses>>
       ELSE /\ errorBox' = Cleared
            /\ analyzeBusy' = "true"
            /\ sentiment' = renderSentiment(null)
            /\ \E text \in chooseRandom(State.reviews) : \E token \in Tokens :
                 /\ reviewDisplay' = Displayed(text)
                 /\ analyses' = analyses \cup
                      {[id |-> nAnalyses + 1, pc |-> "fetch", inputs |-> text,
                        authorization |-> trim(token), status |-> 0]}
            /\ ev' = Event("analyze.fetch")
            /\ owner' = [Started(AnalyzeCall(nAnalyses + 1)) EXCEPT
                           !.resultFor = NoReview]
  /\ UNCHANGED <<dvars, nvars>>

\* line 248-252: fetch rejects
FetchRejects(a) ==
  /\ a \in analyses /\ a.pc = "fetch"
  /\ analyzeBusy' = "false"
  /\ errorBox' = Shown(<<"Network error: ", "Failed to fetch">>)
  /\ Ended(a)
  /\ ev' = [Event("fetch.catch") EXCEPT !.errored = TRUE]
  /\ owner' = ShownBy(owner, AnalyzeCall(a.id))
  /\ UNCHANGED <<dvars, reviewDisplay, sentiment, nAnalyses, nvars>>

\* line 254-258 and 273-275: the response is there, its body is awaited
FetchResolves(a, status) ==
  /\ a \in analyses /\ a.pc = "fetch"
  /\ analyzeBusy' = IF Ok(status) THEN analyzeBusy ELSE "false"
  /\ analyses' = (analyses \ {a}) \cup
       {[a EXCEPT !.pc = IF Ok(status) THEN "okjson" ELSE "errjson",
                  !.status = status]}
  /\ ev' = Event("fetch.response")
  /\ UNCHANGED <<dvars, errorBox, owner, reviewDisplay, sentiment, nAnalyses, nvars>>

\* line 258-270: the body of a non-success response was read, or could not be
ErrorBodyRead(a, body) ==
  /\ a \in analyses /\ a.pc = "errjson"
  /\ errorBox' = Shown(StatusMessage(a.status, Detail(body)))
  /\ Ended(a)
  /\ ev' = [Event("status.return") EXCEPT !.errored = TRUE,
                                          !.status = a.status, !.error = body]
  /\ owner' = ShownBy(owner, AnalyzeCall(a.id))
  /\ UNCHANGED <<dvars, analyzeBusy, reviewDisplay, sentiment, nAnalyses, nvars>>

\* line 276-280: resp.json() rejects
BodyRejects(a) ==
  /\ a \in analyses /\ a.pc = "okjson"
  /\ analyzeBusy' = "false"
  /\ errorBox' = Shown(<<"Invalid JSON from API: ", "Unexpected token">>)
  /\ Ended(a)
  /\ ev' = [Event("json.catch") EXCEPT !.errored = TRUE]
  /\ owner' = ShownBy(owner, AnalyzeCall(a.id))
  /\ UNCHANGED <<dvars, reviewDisplay, sentiment, nAnalyses, nvars>>

\* line 282-285: resp.json() gave data. A TypeError out of normalizeHfResponse
\* rejects the promise of analyzeRandom, which nothing handles
BodyParsed(a, data) ==
  /\ a \in analyses /\ a.pc = "okjson"
  /\ LET r == normalizeHfResponse(data) IN
       IF r.throws
         THEN /\ ev' = [Event("normalize.throw") EXCEPT !.body = data]
              /\ UNCHANGED <<analyzeBusy, sentiment, owner>>
         ELSE /\ sentiment' = renderSentiment(r.value)
              /\ analyzeBusy' = "false"
              /\ ev' = [Event("analyze.end") EXCEPT
                          !.rendered = TRUE, !.body = data]
              /\ owner' = [owner EXCEPT !.resultFor =
                             IF r.value.isNull THEN NoReview ELSE a.inputs]
  /\ Ended(a)
  /\ UNCHANGED <<dvars, errorBox, reviewDisplay, nAnalyses, nvars>>

(***************************************************************************)
(* The application: the bootstrap, reloads and analyses in any order.      *)
(***************************************************************************)
Init == SysInit /\ NoCaller

Next ==
  \/ DOMContentLoaded
  \/ ReloadClick
  \/ \E l \in loads : \E rows \in Files : LoadComplete(l, rows)
  \/ \E l \in loads : LoadCompleteThrows(l)
  \/ \E l \in loads : LoadError(l)
  \/ AnalyzeClick
  \/ \E a \in analyses : FetchRejects(a)
  \/ \E a \in analyses : \E status \in Statuses : FetchResolves(a, status)
  \/ \E a \in analyses : \E body \in ErrBodies : ErrorBodyRead(a, body)
  \/ \E a \in analyses : BodyRejects(a)
  \/ \E a \in analyses : \E data \in Bodies : BodyParsed(a, data)

Spec == Init /\ [][Next]_vars

(***************************************************************************)
(* The ingestion alone, on every list of rows up to MaxRows.               *)
(***************************************************************************)
LoadInit == SysInit /\ NoCaller

LoadNext ==
  \/ DOMContentLoaded
  \/ ReloadClick
  \/ \E l \in loads : \E rows \in RowLists : LoadComplete(l, rows)
  \/ \E l \in loads : LoadCompleteThrows(l)
  \/ \E l \in loads : LoadError(l)

LoadSpec == LoadInit /\ [][LoadNext]_vars

(***************************************************************************)
(* The normalizer alone, on every body of JsonBodies.                      *)
(***************************************************************************)
NormInit ==
  /\ SysInit
  /\ json \in JsonBodies
  /\ returned = NotCalled
  /\ calls = "none"

\* result = normalizeHfResponse(json), on a value the caller keeps
CallNormalize ==
  /\ LET r == normalizeHfResponse(json) IN
       /\ returned' = [throws |-> r.throws, value |-> r.value, arg |-> json]
       /\ json' = r.json
  /\ calls' = IF calls = "none" THEN "once" ELSE "again"
  /\ UNCHANGED <<dvars, errorBox, avars, ev, owner>>

NormNext == CallNormalize

NormSpec == NormInit /\ [][NormNext]_vars

(***************************************************************************)
(* Properties.                                                             *)
(***************************************************************************)
\* the steps that end an analyzeRandom call
AnalyzeEnds ==
  {"analyze.return", "fetch.catch", "status.return", "json.catch",
   "analyze.end", "normalize.throw"}

NoResultShown == renderSentiment(null)

ErrorSurfaced == errorBox.display = "block" /\ errorBox.text # NoMessage

\* C1: every analyzeRandom call, when it ends, has either rendered a
\* sentiment result as its outcome or surfaced an error, and not both.
C1_ExactlyOneOutcome ==
  ev.op \in AnalyzeEnds => (ev.rendered # ev.errored)

\* C2: aria-busy of the analyze button is "true" once a call has passed the
\* precondition check, "false" when such a call has ended and no other is in
\* flight, and never "true" while no call is in flight.
C2_BusyCleared ==
  /\ ev.op = "analyze.fetch" => analyzeBusy = "true"
  /\ (ev.op \in AnalyzeEnds \ {"analyze.return"} /\ analyses = {}) =>
       analyzeBusy = "false"
  /\ analyses = {} => analyzeBusy # "true"

\* C3: an analyzeRandom call made while STATE.loaded is false shows the
\* precondition error, adds no request, and leaves aria-busy, the displayed
\* review and the displayed sentiment as they were.
C3_NotLoadedShortCircuits ==
  [][(~State.loaded /\ nAnalyses' = nAnalyses + 1) =>
       /\ errorBox' = Shown(NotLoadedMessage)
       /\ analyses' = analyses
       /\ analyzeBusy' = analyzeBusy
       /\ reviewDisplay' = reviewDisplay
       /\ sentiment' = sentiment]_vars

C3_Witness ==
  /\ ev.op = "analyze.return"
  /\ ~State.loaded
  /\ loads # {}
  /\ errorBox = Shown(NotLoadedMessage)

\* the verdict the rule of the documentation gives a textual label and a score
PositiveSpellings == {"POSITIVE", "positive"}
NegativeSpellings == {"Negative"}
Confident(s) == s.k = "num" /\ s.n > Threshold
RuleVerdict(L, s) ==
  IF L \in PositiveSpellings /\ Confident(s) THEN "positive"
  ELSE IF L \in NegativeSpellings /\ Confident(s) THEN "negative"
  ELSE "neutral"

\* C4: on [[{label: L, score: s}]] with a textual L, normalizeHfResponse
\* returns the verdict "positive" iff L in upper case is POSITIVE and
\* s > 0.5, "negative" iff it is NEGATIVE and s > 0.5, and "neutral"
\* otherwise; a score that is no number counts as 0.
C4_SingleCandidateVerdict ==
  \A L \in LabelTexts : \A s \in Scores :
    (calls # "none" /\ returned.arg = JNested(<<JObj(StrLabel(L), s)>>)) =>
      /\ ~returned.throws
      /\ ~returned.value.isNull
      /\ returned.value.verdict = RuleVerdict(L, s)
      /\ s.k # "num" => returned.value.score = 0

C4_Witness ==
  /\ calls = "once"
  /\ returned.arg = JNested(<<JObj(StrLabel("positive"), NumScore(5))>>)
  /\ returned.value.verdict = "neutral"

\* what a call on the candidate list cs, nested as json[0], comes to
Outcome(cs) ==
  LET r == normalizeHfResponse(JNested(cs))
  IN [throws |-> r.throws, value |-> r.value]

\* the candidate list of the last call, and what the call came to
LastCandidates == Candidates(returned.arg).list
LastOutcome == [throws |-> returned.throws, value |-> returned.value]

Reordered(cs) ==
  {[i \in 1..Len(cs) |-> cs[p[i]]] : p \in Permutations(1..Len(cs))}

\* the positions whose score (a missing one counting as 0) no other exceeds
MaxAt(cs) ==
  {i \in 1..Len(cs) : \A j \in 1..Len(cs) : ScoreKey(cs[j]) <= ScoreKey(cs[i])}

\* cs with the label and score of one entry that is not at the maximum
\* changed, its score staying below the maximum
ChangedBelowMax(cs) ==
  {[cs EXCEPT ![i] = c] :
     i \in {k \in 1..Len(cs) : k \notin MaxAt(cs) /\ cs[k].t = "obj"},
     c \in {d \in Items : d.t = "obj" /\
              \A m \in MaxAt(cs) : ScoreKey(d) < ScoreKey(cs[m])}}

\* C5 as stated: for every candidate list of two or more entries, no
\* reordering and no change of an entry below the maximum changes the result.
C5_AnyOrderSameResult ==
  (calls = "once" /\ Len(LastCandidates) >= 2) =>
    \A cs \in Reordered(LastCandidates) \cup ChangedBelowMax(LastCandidates) :
      Outcome(cs) = LastOutcome

\* C5, amended: for every candidate list of two or more entries of which
\* exactly one has the maximum score, no reordering and no change of an
\* entry below the maximum changes the result.
C5_UniqueMaxDecides ==
  (calls = "once" /\ Len(LastCandidates) >= 2
     /\ Cardinality(MaxAt(LastCandidates)) = 1) =>
    \A cs \in Reordered(LastCandidates) \cup ChangedBelowMax(LastCandidates) :
      Outcome(cs) = LastOutcome

C5_Witness ==
  /\ calls = "once"
  /\ returned.arg = JNested(<<JObj(StrLabel("positive"), NumScore(5)),
                             JObj(StrLabel("Negative"), NumScore(6))>>)
  /\ returned.value = Result("NEGATIVE", 6, "negative")

\* C6: a call of normalizeHfResponse leaves its argument as it was.
C6_ArgumentUnchanged ==
  calls # "none" => json = returned.arg

\* the bodies the normalizer does not recognise: no array, an empty list, a
\* list with a null entry, a list no entry of which has a textual label
Unrecognised(body) ==
  \/ body.t # "array"
  \/ LET cs == Candidates(body).list IN
       \/ cs = <<>>
       \/ \E i \in 1..Len(cs) : cs[i].t = "null"
       \/ \A i \in 1..Len(cs) : cs[i].label.k # "str"

\* C7: a success response whose parsable body the normalizer does not
\* recognise ends the call with the "no result" rendering and no error.
C7_UnrecognisedRendersNoResult ==
  (ev.op \in {"analyze.end", "normalize.throw"} /\ Unrecognised(ev.body)) =>
    /\ ev.rendered
    /\ ~ev.errored
    /\ sentiment = NoResultShown

LoadFails == {"error", "complete.catch"}

\* C8 as stated: when a loadTSV call ends in the error callback or in the
\* catch, the store is empty and not loaded, the status is error and an
\* error is shown, overlapping calls included.
C8_FailureLeavesEmptyStore ==
  ev.op \in LoadFails =>
    /\ State = EmptyStore
    /\ loadStatus.mode = "error"
    /\ ErrorSurfaced

\* C8, amended: when a loadTSV call ends in the error callback or in the
\* catch, the status is error and an error is shown, and the store is empty
\* and not loaded unless an overlapping call has stored surviving rows since
\* this call's reset.
C8_FailureLeavesStoreAsReset ==
  ev.op \in LoadFails =>
    /\ loadStatus.mode = "error"
    /\ ErrorSurfaced
    /\ ~ev.wrote => State = EmptyStore

C8_Witness ==
  /\ ev.op \in LoadFails
  /\ nLoads >= 2
  /\ ~ev.wrote
  /\ State = EmptyStore
  /\ loadStatus.mode = "error"

\* a row whose "text" is a string with a character that is no whitespace
ValidRow(r) ==
  /\ r.t = "obj"
  /\ r.text.k = "str"
  /\ \E i \in 1..Len(r.text.s) : r.text.s[i] # Space

\* t is s without the whitespace at its two ends
IsTrimOf(t, s) ==
  \E i \in 1..Len(s) : \E j \in i..Len(s) :
    /\ s[i] # Space /\ s[j] # Space
    /\ \A k \in 1..Len(s) : (k < i \/ k > j) => s[k] = Space
    /\ t = SubSeq(s, i, j)

\* C9: a complete callback stores the trimmed "text" of the valid rows, in
\* the order of the file, duplicates kept, and nothing else; with a survivor
\* loaded is true and the count is the number of survivors.
C9_SurvivorsInFileOrder ==
  ev.op = "complete" =>
    LET valid == {i \in 1..Len(ev.rows) : ValidRow(ev.rows[i])} IN
      /\ Len(State.reviews) = Cardinality(valid)
      /\ \A i \in valid :
           IsTrimOf(State.reviews[Cardinality({j \in valid : j <= i})],
                    ev.rows[i].text.s)
      /\ valid # {} => State.loaded /\ countBadge.n = Cardinality(valid)

C9_Witness ==
  /\ ev.op = "complete"
  /\ ev.rows = <<Row(StrField(<<" ", " ">>)), Row(StrField(<<"b", " ", "b", " ">>))>>
  /\ State = [reviews |-> << <<"b", " ", "b">> >>, loaded |-> TRUE]
  /\ countBadge.n = 1

\* C10: a complete callback on rows none of which is valid leaves the store
\* empty and not loaded, the status error and an error shown.
C10_NoSurvivorIsAnError ==
  (ev.op = "complete" /\ \A i \in 1..Len(ev.rows) : ~ValidRow(ev.rows[i])) =>
    /\ State = EmptyStore
    /\ loadStatus.mode = "error"
    /\ ErrorSurfaced

C10_Witness ==
  /\ ev.op = "complete"
  /\ ev.rows = <<Row(OtherField), Row(StrField(<<" ", " ">>))>>
  /\ ev.wrote
  /\ State = EmptyStore
  /\ loadStatus = Status("error", "No reviews found in TSV")

(***************************************************************************)
(* C11. The message of a non-success response.                             *)
(***************************************************************************)
Has(msg, part) == \E i \in 1..Len(msg) : msg[i] = part

\* the guidance of each status, as the message shows it when the body gave
\* no detail
Guidance(status) ==
  CASE status = 401 ->
         <<"Unauthorized (401). Invalid or missing token",
           ". You can try without a token or provide a valid one.">>
    [] status = 429 ->
         <<"Rate limited (429). Please wait and try again",
           ". Supplying your token may help.">>
    [] status = 503 ->
         <<"Model loading (503). The model is warming up. Please retry in a moment",
           ".">>
    [] OTHER -> <<"API error (", ToString(status), ").">>

TextualError(body) == body.parses /\ body.error.k = "str"

\* C11: when an analyze call ends on a non-success status, the error box
\* shows the guidance of that status (401, 429, 503, else the generic one
\* with the code); it shows the body's "error" text too when the body parsed
\* and has one, and otherwise the guidance alone, with no second error
C11_StatusGuidanceSurfaced ==
  ev.op = "status.return" =>
    /\ errorBox.display = "block"
    /\ \A i \in 1..Len(Guidance(ev.status)) :
         Has(errorBox.text, Guidance(ev.status)[i])
    /\ IF TextualError(ev.error)
         THEN Has(errorBox.text, ev.error.error.s)
         ELSE errorBox.text = Guidance(ev.status)
    /\ ~Has(errorBox.text, "Invalid JSON from API: ")

C11_Witness ==
  /\ ev.op = "status.return"
  /\ ev.status = 401
  /\ TextualError(ev.error)
  /\ Has(errorBox.text, "invalid token")
  /\ Has(errorBox.text, "Unauthorized (401). Invalid or missing token")

(***************************************************************************)
(* C12, C13. The shapes normalizeHfResponse accepts.                       *)
(***************************************************************************)
\* null, 0, false, "" or undefined; []; [[]]
EmptyShapes == {JFalsy, JFlat(<<>>), JNested(<<>>)}

\* C12: called on a falsy value, on [] or on [[]], normalizeHfResponse does
\* not throw and returns null, so no label, score or verdict
C12_EmptyShapesGiveNull ==
  (calls # "none" /\ returned.arg \in EmptyShapes) =>
    /\ ~returned.throws
    /\ returned.value.isNull
    /\ returned.value.verdict = ""

C12_Witness ==
  /\ calls = "once"
  /\ returned.arg = JNested(<<>>)
  /\ ~returned.throws
  /\ returned.value.isNull

\* the elements of a flat list, as candidates
Unwrapped(v) ==
  [i \in 1..Len(v) |-> [t |-> v[i].t, label |-> v[i].label, score |-> v[i].score]]

FlatList(x) == x.t = "array" /\ Len(x.v) > 0 /\ x.v[1].t # "arr"

\* C13: on a non-empty flat list L whose first element is no list, a call
\* comes to what a call on [L] comes to: the same label, score and verdict,
\* or null for both (or the TypeError of the sort for both)
C13_FlatAsNested ==
  (calls # "none" /\ FlatList(returned.arg)) =>
    LastOutcome = Outcome(Unwrapped(returned.arg.v))

C13_Witness ==
  /\ calls = "once"
  /\ returned.arg = JFlat(<<JObj(StrLabel("Negative"), NumScore(6)),
                            JObj(StrLabel("positive"), NumScore(5))>>)
  /\ returned.value = Result("NEGATIVE", 6, "negative")
  /\ Outcome(Unwrapped(returned.arg.v)).value = Result("NEGATIVE", 6, "negative")

(***************************************************************************)
(* C14, C15. The store as the handlers leave it.                           *)
(***************************************************************************)
\* C14: between any two handler steps, loaded is true exactly when reviews
\* is not empty, whatever reloads and analyses are under way
C14_LoadedIffReviews ==
  State.loaded <=> Len(State.reviews) > 0

C14_Witness ==
  /\ ev.op = "complete"
  /\ loads # {}
  /\ State.loaded
  /\ Len(State.reviews) = 2

LoadStarts == {"DOMContentLoaded", "reload"}
LoadEnds == {"complete"} \cup LoadFails

StoreOf(rows) == [reviews |-> Texts(rows), loaded |-> Len(Texts(rows)) > 0]

\* C15 as stated: reviews is empty or the survivors of one list of rows, and
\* once every loadTSV call has completed the store is what the call that
\* completed last wrote: its survivors, or, for a call that failed, the
\* empty store of its reset
C15_StoreOfLastCompleted ==
  /\ State.reviews \in {Texts(rows) : rows \in RowLists}
  /\ (loads = {} /\ ev.op \in LoadEnds) =>
       State = IF ev.op = "complete" THEN StoreOf(ev.rows) ELSE EmptyStore

\* C15, amended: every step leaves the store as it is, or replaces it as a
\* whole: the start of a loadTSV call by the empty store, a complete callback
\* by the survivors of its own rows (nothing of what was stored before is
\* kept); a call that ends in failure writes nothing. So the store is what
\* the last of these writes left, also when calls overlap
C15_WholeStoreLastWrite ==
  [][ /\ ev'.op \in LoadStarts => State' = EmptyStore
      /\ ev'.op = "complete" => State' = StoreOf(ev'.rows)
      /\ ev'.op \notin LoadStarts \cup {"complete"} => State' = State ]_vars

C15_Witness ==
  /\ ev.op = "complete"
  /\ ev.wrote
  /\ loads = {}
  /\ Len(State.reviews) = 1
  /\ State = StoreOf(ev.rows)

(***************************************************************************)
(* C16. The reset at the start of every loadTSV call.                      *)
(***************************************************************************)
\* C16: the step that starts a loadTSV call leaves the store empty and not
\* loaded and the count at 0; and from a state with an empty store and a
\* count of 0, only a complete callback whose rows have a survivor leads to
\* a state with a review in the store or another count
C16_ResetUntilSurvivors ==
  [][ /\ ev'.op \in LoadStarts =>
           State' = EmptyStore /\ countBadge' = CountBadge(<<>>)
      /\ ( /\ State = EmptyStore
           /\ countBadge.n = 0
           /\ ~(ev'.op = "complete"
                  /\ \E i \in 1..Len(ev'.rows) : ValidRow(ev'.rows[i])) )
         => State' = EmptyStore /\ countBadge'.n = 0 ]_vars

\* a reload after an analysis had a review to show
C16_Witness ==
  /\ ev.op = "reload"
  /\ reviewDisplay # <<Markup>>
  /\ State = EmptyStore
  /\ countBadge = CountBadge(<<>>)

(***************************************************************************)
(* C17. What analyzeRandom does before it awaits fetch.                    *)
(***************************************************************************)
InStore(text, store) == \E i \in 1..Len(store.reviews) : store.reviews[i] = text

\* C17: the step of an analyzeRandom call that passes the test of line 223
\* ends with the request issued, and by then the review display shows the
\* text the request carries, that text is a review the store held when it
\* was chosen, and the sentiment block shows no result, so none of an
\* earlier call
C17_DisplayedBeforeRequested ==
  [][ (nAnalyses' = nAnalyses + 1 /\ State.loaded /\ State.reviews # <<>>) =>
        \E a \in analyses' \ analyses :
          /\ a.pc = "fetch"
          /\ a.inputs = reviewDisplay'
          /\ InStore(a.inputs, State)
          /\ sentiment' = NoResultShown
          /\ owner'.resultFor = NoReview ]_vars

\* a second call, made after the first one has ended
C17_Witness ==
  /\ ev.op = "analyze.fetch"
  /\ nAnalyses = 2
  /\ sentiment = NoResultShown
  /\ \E a \in analyses :
       /\ analyses = {a}
       /\ a.id = 2
       /\ a.inputs = reviewDisplay
       /\ InStore(a.inputs, State)

(***************************************************************************)
(* C18. Errors end one call, not the page.                                 *)
(***************************************************************************)
\* the listeners of line 298-308 are there once the first loadTSV call has
\* ended, however it ended, and while the model follows clicks each button
\* starts a call; the step that starts a call clears the error box, or, at
\* the return of line 225, leaves in it the error of that very call
Restartable ==
  /\ ev.op \notin {"script", "DOMContentLoaded"} => wired
  /\ (wired /\ Clicks < MaxClicks) => ENABLED ReloadClick /\ ENABLED AnalyzeClick
  /\ ev.op \in LoadStarts \cup {"analyze.fetch"} =>
       errorBox = Cleared /\ owner.errorBy = NoCall
  /\ ev.op = "analyze.return" =>
       ErrorSurfaced /\ owner.errorBy = owner.started

\* C18 as stated: a call can be started after every error, it begins by
\* clearing the error box, and an error on display is always the error of
\* the call that was started last
C18_ErrorOfLatestCall ==
  /\ Restartable
  /\ ErrorSurfaced => owner.errorBy = owner.started

\* C18, amended: a call can be started after every error, it begins by
\* clearing the error box, and an error on display is the error of the call
\* that was started last or of a call that was suspended when that one
\* started
C18_ErrorOfCallInFlight ==
  /\ Restartable
  /\ ErrorSurfaced => (owner.errorBy = owner.started \/ owner.overlap)

\* after a first load that failed, an analyze click is taken: the error on
\* display is now its own
C18_Witness ==
  /\ ev.op = "analyze.return"
  /\ loadStatus.mode = "error"
  /\ ErrorSurfaced
  /\ owner.errorBy = AnalyzeCall(1)
  /\ owner.started = AnalyzeCall(1)
  /\ ENABLED ReloadClick

(***************************************************************************)
(* C19. The result on display and the review on display.                   *)
(***************************************************************************)
\* C19: whenever the sentiment block shows a result (not the dash of no
\* result), that result was computed from the response to the request that
\* carried the review now on display
C19_ResultOfDisplayedReview ==
  ~sentiment.dash => owner.resultFor = reviewDisplay

(***************************************************************************)
(* C20. The status "ready".                                                *)
(***************************************************************************)
\* C20: whenever the load status is "ready", the store is loaded and holds
\* at least one review, whatever reloads are under way and however they end
C20_ReadyMeansLoaded ==
  loadStatus.mode = "ready" => State.loaded /\ Len(State.reviews) >= 1

\* ready after one of two overlapping calls has completed
C20_Witness ==
  /\ loadStatus = Status("ready", "TSV loaded")
  /\ nLoads = 3
  /\ Cardinality(loads) = 1
  /\ State.loaded
  /\ Len(State.reviews) >= 1
====
